---- MODULE Spec2Model ----
(***************************************************************************)
(* Model of basicstats.c: main() reads doubles from a file into a doubling *)
(* heap array, sorts it once, computes mean, median, mode, population      *)
(* standard deviation (through babylonian_sqrt) and harmonic mean, prints  *)
(* the report and frees the array.                                         *)
(*                                                                         *)
(* Numbers.  The file holds small positive integers (exactly representable *)
(* doubles).  Sums, quotients and averages of them are modelled as exact   *)
(* rationals <<n, d>> (d > 0, lowest terms), NaN as <<0, 0>>.  The         *)
(* iteration of babylonian_sqrt is modelled in fixed point: <<u, Scale>>   *)
(* is u / Scale.  A heap block records which of its cells were written.    *)
(* A C index i is the TLA+ sequence index i + 1.                           *)
(***************************************************************************)
EXTENDS Integers, Sequences, FiniteSets

\* ---- bounds of the model ----
MaxShortLen == 5
MaxVal == 4
MaxLen == 41
MaxSeed == 3
MaxArgc == 3

\* ---- program constants ----
INITIAL_CAPACITY == 20
NULL == 0
Digits == 7
Scale == 10 ^ Digits
Epsilon == Scale \div 1000000
\* 0.0 / 0
NaN == <<0, 0>>
\* a statistic not computed yet
UNSET == <<>>
\* nothing printed on stdout yet
NoReport == [printed |-> FALSE]

VARIABLES argc, file, pc, status, diag, size, capacity, data, heap,
          pos, fileOpen, value, acc, sortCount,
          mean, median, mode, stddev, harmonic_mean,
          sq_value, sq_x, sq_y, report

vars == <<argc, file, pc, status, diag, size, capacity, data, heap,
          pos, fileOpen, value, acc, sortCount,
          mean, median, mode, stddev, harmonic_mean,
          sq_value, sq_x, sq_y, report>>

statVars == <<mean, median, mode, stddev, harmonic_mean, sq_value, sq_x, sq_y>>

\* ---- the input files ----
\* A file is the sequence of numeric tokens fscanf("%lf") parses before it
\* stops; every short sequence is enumerated, long ones are generated.
GenFile(n, seed) == [i \in 1..n |-> ((i * seed) % MaxVal) + 1]

Files ==
  (UNION {[1..n -> 1..MaxVal] : n \in 0..MaxShortLen})
    \cup {GenFile(n, s) : n \in (MaxShortLen + 1)..MaxLen, s \in 1..MaxSeed}

\* ---- int arithmetic ----
\* a growth that adds the initial capacity instead of doubling
Double32_Linear(c) == c + INITIAL_CAPACITY

\* 2 * c in a 32-bit int; past INT_MAX the product wraps (two's complement)
Double32(c) ==
  IF c > 1073741823 THEN ((c - 1073741823 - 1) * 2) + (-2147483647 - 1)
  ELSE IF c < -1073741823 - 1 THEN ((c + 1073741823 + 1) * 2) + 2147483647 + 1
  ELSE 2 * c

\* data[i]
At(a, i) == a[i + 1]

\* ---- double arithmetic: exact rationals <<n, d>> ----
RECURSIVE GCD(_, _)
GCD(a, b) == IF b = 0 THEN a ELSE GCD(b, a % b)

Abs(x) == IF x < 0 THEN -x ELSE x

Rat(n, d) == LET g == GCD(Abs(n), Abs(d)) IN <<n \div g, d \div g>>

\* ---- double arithmetic: fixed point, Scale units per 1.0 ----
RECURSIVE LongDiv(_, _, _, _)
LongDiv(q, r, b, k) ==
  IF k = 0 THEN q
  ELSE LongDiv(q * 10 + ((r * 10) \div b), (r * 10) % b, b, k - 1)

\* the units of a / b, for a and b in units
FixDiv(a, b) == LongDiv(a \div b, a % b, b, Digits)

\* printf("%.3f"): thousandths, round half to even
Fmt3(r) ==
  IF r = NaN THEN "nan"
  ELSE LET q == (r[1] * 1000) \div r[2]
           rem == (r[1] * 1000) % r[2]
       IN IF 2 * rem > r[2] THEN q + 1
          ELSE IF 2 * rem = r[2] THEN q + (q % 2)
          ELSE q

Fmt3Fix(x) ==
  IF x = NaN THEN "nan"
  ELSE LET u == Scale \div 1000
           q == x[1] \div u
           rem == x[1] % u
       IN IF 2 * rem > u THEN q + 1
          ELSE IF 2 * rem = u THEN q + (q % 2)
          ELSE q

\* ---- compare_double and qsort ----
compare_double(a, b) ==
  LET diff == a - b
  IN (IF diff > 0 THEN 1 ELSE 0) - (IF diff < 0 THEN 1 ELSE 0)

RECURSIVE InsertSorted(_, _)
InsertSorted(s, v) ==
  IF s = <<>> THEN <<v>>
  ELSE IF compare_double(v, Head(s)) <= 0 THEN <<v>> \o s
  ELSE <<Head(s)>> \o InsertSorted(Tail(s), v)

RECURSIVE SortCells(_)
SortCells(s) == IF s = <<>> THEN <<>> ELSE InsertSorted(SortCells(Tail(s)), Head(s))

\* qsort(data, size, sizeof(double), compare_double): the first size cells
Qsort(cells, n) == SortCells(SubSeq(cells, 1, n)) \o SubSeq(cells, n + 1, Len(cells))

\* ---- the statistics ----
\* an indeterminate double: what a read outside the initialised cells yields
IndeterminateDoubles == {NaN, <<0, 1>>, <<1, 1>>}

RECURSIVE SumTo(_, _)
SumTo(a, n) == IF n = 0 THEN 0 ELSE SumTo(a, n - 1) + At(a, n - 1)

MeanIdx(n) == 0..(n - 1)

calculate_mean(a, n) == IF n = 0 THEN NaN ELSE Rat(SumTo(a, n), n)

\* the even case taking the two elements after the middle
MedianIdx_Shifted(n) == IF n % 2 = 0 THEN <<n \div 2, (n \div 2) + 1>> ELSE <<n \div 2>>

MedianIdx(n) == IF n % 2 = 0 THEN <<(n \div 2) - 1, n \div 2>> ELSE <<n \div 2>>

calculate_median(a, n) ==
  LET ix == MedianIdx(n)
  IN IF n % 2 = 0 THEN Rat(At(a, ix[1]) + At(a, ix[2]), 2)
     ELSE Rat(At(a, ix[1]), 1)

ModeIdx(n) == {0} \cup UNION {{i, i - 1} : i \in 1..(n - 1)}

\* the run comparison with >= instead of >
RECURSIVE ModeLoop_Ge(_, _, _, _, _, _)
ModeLoop_Ge(a, n, i, m, max_count, count) ==
  IF i >= n THEN m
  ELSE IF At(a, i) = At(a, i - 1)
       THEN ModeLoop_Ge(a, n, i + 1, m, max_count, count + 1)
       ELSE IF count >= max_count
            THEN ModeLoop_Ge(a, n, i + 1, At(a, i - 1), count, 1)
            ELSE ModeLoop_Ge(a, n, i + 1, m, max_count, 1)

RECURSIVE ModeLoop(_, _, _, _, _, _)
ModeLoop(a, n, i, m, max_count, count) ==
  IF i >= n THEN m
  ELSE IF At(a, i) = At(a, i - 1)
       THEN ModeLoop(a, n, i + 1, m, max_count, count + 1)
       ELSE IF count > max_count
            THEN ModeLoop(a, n, i + 1, At(a, i - 1), count, 1)
            ELSE ModeLoop(a, n, i + 1, m, max_count, 1)

calculate_mode(a, n) == Rat(ModeLoop(a, n, 1, At(a, 0), 1, 1), 1)

\* sum_sq / size in calculate_stddev, with mean the rational m
RECURSIVE SumSq(_, _, _)
SumSq(a, n, m) ==
  IF n = 0 THEN 0
  ELSE SumSq(a, n - 1, m)
         + (At(a, n - 1) * m[2] - m[1]) * (At(a, n - 1) * m[2] - m[1])

Variance(a, n, m) ==
  IF n = 0 \/ m = NaN THEN NaN ELSE Rat(SumSq(a, n, m), m[2] * m[2] * n)

\* the fixed-point number of u units
Fix(u) == <<u, Scale>>

ToFix(r) ==
  IF r = NaN THEN NaN ELSE Fix(LongDiv(r[1] \div r[2], r[1] % r[2], r[2], Digits))

\* while (x - y > e)
SqrtContinues(x, y) == x # NaN /\ y # NaN /\ x[1] - y[1] > Epsilon

\* a common denominator of 1 / data[0], ..., 1 / data[n - 1]
RECURSIVE CommonDen(_, _)
CommonDen(a, n) ==
  IF n = 0 THEN 1
  ELSE LET p == CommonDen(a, n - 1)
           v == At(a, n - 1)
       IN (p \div GCD(p, v)) * v

\* denominator_sum += 1 / data[i], in units of 1 / den
RECURSIVE RecipSum(_, _, _)
RecipSum(a, n, den) ==
  IF n = 0 THEN 0 ELSE RecipSum(a, n - 1, den) + (den \div At(a, n - 1))

calculate_harmonic_mean(a, n) ==
  IF n = 0 THEN NaN
  ELSE LET den == CommonDen(a, n) IN Rat(n * den, RecipSum(a, n, den))

\* ---- the heap ----
NewBlock(n) == [size |-> n, frees |-> 0, cells |-> [i \in 1..n |-> 0], inited |-> {}]

Live(h, b) == b \in 1..Len(h) /\ h[b].frees = 0

Free(h, b) == [h EXCEPT ![b].frees = @ + 1]

\* a copy that stops one element short
Memcpy_Short(dst, src, n) ==
  [i \in 1..Len(dst) |-> IF i < n /\ i <= Len(src) THEN src[i] ELSE dst[i]]

\* memcpy(new_array, old_array, old_size * sizeof(double))
Memcpy(dst, src, n) ==
  [i \in 1..Len(dst) |-> IF i <= n /\ i <= Len(src) THEN src[i] ELSE dst[i]]

Touch(op, b, idxs, live) == {[op |-> op, blk |-> b, idx |-> i, live |-> live] : i \in idxs}

Init ==
  /\ argc \in 1..MaxArgc
  /\ file \in (IF argc = 2 THEN Files ELSE {<<>>})
  /\ pc = "start"
  /\ status = "running"
  /\ diag = "none"
  /\ size = 0
  /\ capacity = INITIAL_CAPACITY
  /\ data = NULL
  /\ heap = <<>>
  /\ pos = 0
  /\ fileOpen = FALSE
  /\ value = 0
  /\ acc = {}
  /\ sortCount = 0
  /\ mean = UNSET /\ median = UNSET /\ mode = UNSET
  /\ stddev = UNSET /\ harmonic_mean = UNSET
  /\ sq_value = UNSET /\ sq_x = UNSET /\ sq_y = UNSET
  /\ report = NoReport

\* ---- main: argument check, first allocation, fopen ----
\* the usage message without the return
Usage_FallThrough ==
  /\ pc = "start" /\ argc # 2
  /\ diag' = "usage"
  /\ pc' = "malloc"
  /\ acc' = {}
  /\ UNCHANGED <<argc, file, status, size, capacity, data, heap, pos, fileOpen, value,
                 sortCount, statVars, report>>

Usage ==
  /\ pc = "start" /\ argc # 2
  /\ diag' = "usage"
  /\ status' = "EXIT_FAILURE"
  /\ pc' = "exit"
  /\ acc' = {}
  /\ UNCHANGED <<argc, file, size, capacity, data, heap, pos, fileOpen, value,
                 sortCount, statVars, report>>

ArgsOk ==
  /\ pc = "start" /\ argc = 2
  /\ pc' = "malloc"
  /\ acc' = {}
  /\ UNCHANGED <<argc, file, status, diag, size, capacity, data, heap, pos,
                 fileOpen, value, sortCount, statVars, report>>

InitAllocOk ==
  /\ pc = "malloc"
  /\ heap' = Append(heap, NewBlock(capacity))
  /\ data' = Len(heap) + 1
  /\ pc' = "fopen"
  /\ acc' = {}
  /\ UNCHANGED <<argc, file, status, diag, size, capacity, pos, fileOpen, value,
                 sortCount, statVars, report>>

InitAllocFail ==
  /\ pc = "malloc"
  /\ data' = NULL
  /\ diag' = "alloc"
  /\ status' = "EXIT_FAILURE"
  /\ pc' = "exit"
  /\ acc' = {}
  /\ UNCHANGED <<argc, file, size, capacity, heap, pos, fileOpen, value,
                 sortCount, statVars, report>>

OpenOk ==
  /\ pc = "fopen"
  /\ fileOpen' = TRUE
  /\ pc' = "read"
  /\ acc' = {}
  /\ UNCHANGED <<argc, file, status, diag, size, capacity, data, heap, pos, value,
                 sortCount, statVars, report>>

OpenFail ==
  /\ pc = "fopen"
  /\ heap' = Free(heap, data)
  /\ diag' = "open"
  /\ status' = "EXIT_FAILURE"
  /\ pc' = "exit"
  /\ acc' = {}
  /\ UNCHANGED <<argc, file, size, capacity, data, pos, fileOpen, value,
                 sortCount, statVars, report>>

\* ---- main: the ingestion loop ----
\* the growth test one element early
ReadValue_EarlyGrow ==
  /\ pc = "read" /\ pos < Len(file)
  /\ value' = file[pos + 1]
  /\ pos' = pos + 1
  /\ pc' = IF size + 1 = capacity THEN "enlarge" ELSE "store"
  /\ acc' = {}
  /\ UNCHANGED <<argc, file, status, diag, size, capacity, data, heap, fileOpen,
                 sortCount, statVars, report>>

ReadValue ==
  /\ pc = "read" /\ pos < Len(file)
  /\ value' = file[pos + 1]
  /\ pos' = pos + 1
  /\ pc' = IF size = capacity THEN "enlarge" ELSE "store"
  /\ acc' = {}
  /\ UNCHANGED <<argc, file, status, diag, size, capacity, data, heap, fileOpen,
                 sortCount, statVars, report>>

\* the end of the loop going straight to the statistics
ReadEnd_NoSort ==
  /\ pc = "read" /\ pos >= Len(file)
  /\ fileOpen' = FALSE
  /\ pc' = "mean"
  /\ acc' = {}
  /\ UNCHANGED <<argc, file, status, diag, size, capacity, data, heap, pos, value,
                 sortCount, statVars, report>>

ReadEnd ==
  /\ pc = "read" /\ pos >= Len(file)
  /\ fileOpen' = FALSE
  /\ pc' = "sort"
  /\ acc' = {}
  /\ UNCHANGED <<argc, file, status, diag, size, capacity, data, heap, pos, value,
                 sortCount, statVars, report>>

\* enlarge_array, line 84: the capacity is doubled before the allocation
EnlargeDouble ==
  /\ pc = "enlarge"
  /\ capacity' = Double32(capacity)
  /\ pc' = "enlarge_alloc"
  /\ acc' = {}
  /\ UNCHANGED <<argc, file, status, diag, size, data, heap, pos, fileOpen, value,
                 sortCount, statVars, report>>

\* enlarge_array, lines 85-92, and the assignment data = new_data
EnlargeAllocOk ==
  /\ pc = "enlarge_alloc"
  /\ LET nb == Len(heap) + 1
         blk == NewBlock(capacity)
         copied == [blk EXCEPT !.cells = Memcpy(blk.cells, heap[data].cells, size),
                               !.inited = heap[data].inited \cap 0..(size - 1)]
     IN /\ heap' = Free(Append(heap, copied), data)
        /\ data' = nb
        /\ acc' = Touch("read", data, 0..(size - 1), Live(heap, data))
                    \cup Touch("write", nb, 0..(size - 1), TRUE)
  /\ pc' = "store"
  /\ UNCHANGED <<argc, file, status, diag, size, capacity, pos, fileOpen, value,
                 sortCount, statVars, report>>

\* the failure path without free(data)
EnlargeAllocFail_Leak ==
  /\ pc = "enlarge_alloc"
  /\ fileOpen' = FALSE
  /\ diag' = "enlarge"
  /\ status' = "EXIT_FAILURE"
  /\ pc' = "exit"
  /\ acc' = {}
  /\ UNCHANGED <<argc, file, size, capacity, data, heap, pos, value,
                 sortCount, statVars, report>>

\* enlarge_array returns NULL; main frees data, closes the file and fails
EnlargeAllocFail ==
  /\ pc = "enlarge_alloc"
  /\ heap' = Free(heap, data)
  /\ fileOpen' = FALSE
  /\ diag' = "enlarge"
  /\ status' = "EXIT_FAILURE"
  /\ pc' = "exit"
  /\ acc' = {}
  /\ UNCHANGED <<argc, file, size, capacity, data, pos, value,
                 sortCount, statVars, report>>

\* the store one cell too far
Store_OffByOne ==
  /\ pc = "store"
  /\ heap' = [heap EXCEPT ![data].cells =
                 [i \in 1..Len(@) |-> IF i = size + 2 THEN value ELSE @[i]],
                           ![data].inited = @ \cup ({size + 1} \cap 0..(heap[data].size - 1))]
  /\ acc' = Touch("write", data, {size + 1}, Live(heap, data))
  /\ size' = size + 1
  /\ pc' = "read"
  /\ UNCHANGED <<argc, file, status, diag, capacity, data, pos, fileOpen, value,
                 sortCount, statVars, report>>

\* data[size++] = value
Store ==
  /\ pc = "store"
  /\ heap' = [heap EXCEPT ![data].cells =
                 [i \in 1..Len(@) |-> IF i = size + 1 THEN value ELSE @[i]],
                           ![data].inited = @ \cup ({size} \cap 0..(heap[data].size - 1))]
  /\ acc' = Touch("write", data, {size}, Live(heap, data))
  /\ size' = size + 1
  /\ pc' = "read"
  /\ UNCHANGED <<argc, file, status, diag, capacity, data, pos, fileOpen, value,
                 sortCount, statVars, report>>

\* ---- main: sort, the five statistics, the report ----
Sort ==
  /\ pc = "sort"
  /\ heap' = [heap EXCEPT ![data].cells = Qsort(@, size)]
  /\ sortCount' = sortCount + 1
  /\ acc' = Touch("read", data, 0..(size - 1), Live(heap, data))
              \cup Touch("write", data, 0..(size - 1), Live(heap, data))
  /\ pc' = "mean"
  /\ UNCHANGED <<argc, file, status, diag, size, capacity, data, pos, fileOpen,
                 value, statVars, report>>

Mean ==
  /\ pc = "mean"
  /\ mean' = calculate_mean(heap[data].cells, size)
  /\ acc' = Touch("read", data, MeanIdx(size), Live(heap, data))
  /\ pc' = "median"
  /\ UNCHANGED <<argc, file, status, diag, size, capacity, data, heap, pos, fileOpen,
                 value, sortCount, median, mode, stddev, harmonic_mean,
                 sq_value, sq_x, sq_y, report>>

Median ==
  /\ pc = "median"
  /\ IF size = 0
     THEN median' \in IndeterminateDoubles
     ELSE median' = calculate_median(heap[data].cells, size)
  /\ acc' = Touch("read", data, {MedianIdx(size)[k] : k \in DOMAIN MedianIdx(size)},
                  Live(heap, data))
  /\ pc' = "mode"
  /\ UNCHANGED <<argc, file, status, diag, size, capacity, data, heap, pos, fileOpen,
                 value, sortCount, mean, mode, stddev, harmonic_mean,
                 sq_value, sq_x, sq_y, report>>

Mode ==
  /\ pc = "mode"
  /\ IF size = 0
     THEN mode' \in IndeterminateDoubles
     ELSE mode' = calculate_mode(heap[data].cells, size)
  /\ acc' = Touch("read", data, ModeIdx(size), Live(heap, data))
  /\ pc' = "stddev"
  /\ UNCHANGED <<argc, file, status, diag, size, capacity, data, heap, pos, fileOpen,
                 value, sortCount, mean, median, stddev, harmonic_mean,
                 sq_value, sq_x, sq_y, report>>

\* calculate_stddev up to the call babylonian_sqrt(sum_sq / size), and the
\* initialisation x = value, y = 1.0
StddevCall ==
  /\ pc = "stddev"
  /\ LET v == ToFix(Variance(heap[data].cells, size, mean))
     IN /\ sq_value' = v
        /\ sq_x' = v
        /\ sq_y' = Fix(Scale)
  /\ acc' = Touch("read", data, MeanIdx(size), Live(heap, data))
  /\ pc' = "sqrt"
  /\ UNCHANGED <<argc, file, status, diag, size, capacity, data, heap, pos, fileOpen,
                 value, sortCount, mean, median, mode, stddev, harmonic_mean, report>>

\* one iteration of the loop of babylonian_sqrt
SqrtIter ==
  /\ pc = "sqrt"
  /\ SqrtContinues(sq_x, sq_y)
  /\ LET x == (sq_x[1] + sq_y[1]) \div 2
     IN /\ sq_x' = Fix(x)
        /\ sq_y' = Fix(FixDiv(sq_value[1], x))
  /\ acc' = {}
  /\ UNCHANGED <<argc, file, pc, status, diag, size, capacity, data, heap, pos,
                 fileOpen, value, sortCount, mean, median, mode, stddev,
                 harmonic_mean, sq_value, report>>

\* babylonian_sqrt returns x, calculate_stddev returns it
SqrtReturn ==
  /\ pc = "sqrt"
  /\ ~SqrtContinues(sq_x, sq_y)
  /\ stddev' = sq_x
  /\ acc' = {}
  /\ pc' = "harmonic"
  /\ UNCHANGED <<argc, file, status, diag, size, capacity, data, heap, pos,
                 fileOpen, value, sortCount, mean, median, mode,
                 harmonic_mean, sq_value, sq_x, sq_y, report>>

Harmonic ==
  /\ pc = "harmonic"
  /\ harmonic_mean' = calculate_harmonic_mean(heap[data].cells, size)
  /\ acc' = Touch("read", data, MeanIdx(size), Live(heap, data))
  /\ pc' = "print"
  /\ UNCHANGED <<argc, file, status, diag, size, capacity, data, heap, pos, fileOpen,
                 value, sortCount, mean, median, mode, stddev,
                 sq_value, sq_x, sq_y, report>>

print_results ==
  /\ pc = "print"
  /\ report' = [printed |-> TRUE,
                num_values |-> size,
                mean |-> Fmt3(mean),
                median |-> Fmt3(median),
                mode |-> Fmt3(mode),
                stddev |-> Fmt3Fix(stddev),
                harmonic_mean |-> Fmt3(harmonic_mean),
                unused |-> capacity - size]
  /\ acc' = {}
  /\ pc' = "free"
  /\ UNCHANGED <<argc, file, status, diag, size, capacity, data, heap, pos, fileOpen,
                 value, sortCount, statVars>>

\* free(data); return EXIT_SUCCESS
Finish ==
  /\ pc = "free"
  /\ heap' = Free(heap, data)
  /\ status' = "EXIT_SUCCESS"
  /\ pc' = "exit"
  /\ acc' = {}
  /\ UNCHANGED <<argc, file, diag, size, capacity, data, pos, fileOpen,
                 value, sortCount, statVars, report>>

Next ==
  \/ Usage \/ ArgsOk \/ InitAllocOk \/ InitAllocFail \/ OpenOk \/ OpenFail
  \/ ReadValue \/ ReadEnd \/ EnlargeDouble \/ EnlargeAllocOk \/ EnlargeAllocFail
  \/ Store \/ Sort \/ Mean \/ Median \/ Mode \/ StddevCall \/ SqrtIter
  \/ SqrtReturn \/ Harmonic \/ print_results \/ Finish

Spec == Init /\ [][Next]_vars

\* ---- definitions used by the properties ----
\* the elements data[0 .. size - 1] of the block main holds
Held == IF data = NULL THEN <<>> ELSE SubSeq(heap[data].cells, 1, size)

RECURSIVE IsCapacity(_)
IsCapacity(c) ==
  c = INITIAL_CAPACITY \/ (c > INITIAL_CAPACITY /\ c % 2 = 0 /\ IsCapacity(c \div 2))

\* the smallest INITIAL_CAPACITY * 2^k that is >= n, searched from c
RECURSIVE CapFor(_, _)
CapFor(n, c) == IF c >= n THEN c ELSE CapFor(n, 2 * c)

Count(s, v) == Cardinality({i \in 1..Len(s) : s[i] = v})

SameBag(s, t) ==
  /\ Len(s) = Len(t)
  /\ \A i \in 1..Len(s) : Count(s, s[i]) = Count(t, s[i])

IsAscending(s) == \A i \in 1..(Len(s) - 1) : s[i] <= s[i + 1]

\* runs of a sorted sequence: maximal stretches of equal values
RunStarts(s) == {i \in 1..Len(s) : i = 1 \/ s[i] # s[i - 1]}

RunLen(s, i) ==
  LET later == {j \in RunStarts(s) \cup {Len(s) + 1} : j > i}
  IN (CHOOSE j \in later : \A k \in later : j <= k) - i

ModeByRuns(s) ==
  LET starts == RunStarts(s)
      final == CHOOSE i \in starts : \A j \in starts : j <= i
      cand == starts \ {final}
  IN IF cand = {} THEN s[1]
     ELSE s[CHOOSE i \in cand :
              \A j \in cand : RunLen(s, j) < RunLen(s, i)
                              \/ (RunLen(s, j) = RunLen(s, i) /\ i <= j)]

Ingesting == pc \in {"read", "enlarge", "enlarge_alloc", "store"}

AllStats == <<mean, median, mode, stddev, harmonic_mean>>

\* ---- properties ----

\* C1: capacity >= length in every state, capacity starts at 20, is always
\* 20 * 2^k, and every change of capacity doubles it (so it never decreases).
C1_CapacityDoubles ==
  /\ capacity = INITIAL_CAPACITY
  /\ [](capacity >= size /\ IsCapacity(capacity))
  /\ [][capacity' = capacity \/ capacity' = 2 * capacity]_vars

C1_Witness == capacity = 4 * INITIAL_CAPACITY /\ status = "EXIT_FAILURE"

\* C2: growth happens exactly when an append finds size = capacity and doubles
\* the capacity before the element is written; after N values are ingested
\* without failure capacity is the smallest 20 * 2^k >= N, and the report's
\* unused capacity is capacity - N.
C2_GrowthExact ==
  /\ [](/\ pc = "enlarge" => size = capacity
        /\ pc = "store" => size < capacity
        /\ (status # "EXIT_FAILURE" /\ pc \notin {"enlarge", "enlarge_alloc", "store"})
             => capacity = CapFor(size, INITIAL_CAPACITY)
        /\ (status # "EXIT_FAILURE" /\ ~Ingesting /\ data # NULL /\ pc # "fopen")
             => size = Len(file)
        /\ report.printed
             => report.num_values = Len(file) /\ report.unused = capacity - Len(file))
  /\ [][/\ capacity' # capacity
             => /\ pc = "enlarge" /\ size = capacity
                /\ heap' = heap /\ size' = size /\ data' = data
        /\ (pc = "read" /\ Ingesting')
             => (pc' = "enlarge" <=> size = capacity)]_vars

C2_Witness ==
  /\ report.printed
  /\ size = 2 * INITIAL_CAPACITY + 1
  /\ capacity = 4 * INITIAL_CAPACITY
  /\ report.unused = 2 * INITIAL_CAPACITY - 1

\* C3: during ingestion the cells 0 .. size - 1 are the values read so far in
\* input order; a growth step changes no element and no length; only the
\* store and the sort change the held elements; after the sort they are the
\* ingested multiset in ascending order.
C3_AppendOnly ==
  /\ [](/\ Ingesting => /\ Held = SubSeq(file, 1, size)
                        /\ heap[data].inited = 0..(size - 1)
        /\ sortCount >= 1 => IsAscending(Held) /\ SameBag(Held, file))
  /\ [][/\ pc = "enlarge_alloc" /\ pc' = "store" => size' = size /\ Held' = Held
        /\ pc \notin {"store", "sort"} => Held' = Held
        /\ pc = "store" => Held' = Append(Held, value)]_vars

C3_Witness == sortCount = 1 /\ Len(heap) = 3 /\ Held # file

C5_Median ==
  (median # UNSET /\ size >= 1) =>
    LET a == Held
        h == size \div 2
    IN /\ median[2] > 0
       /\ IF size % 2 = 1
          THEN median[1] = a[h + 1] * median[2]
          ELSE 2 * median[1] = (a[h] + a[h + 1]) * median[2]
       /\ 2 * Cardinality({i \in 1..size : a[i] * median[2] <= median[1]}) >= size
       /\ 2 * Cardinality({i \in 1..size : a[i] * median[2] >= median[1]}) >= size

C5_Witness == median # UNSET /\ size = 4 /\ median[2] = 2

\* C6: no block is freed twice, a run that has exited holds no block, and
\* until exit main holds exactly one live block: the old block is freed only
\* by a successful growth and is still live when a growth fails.
C6_NoLeakNoDoubleFree ==
  /\ \A b \in DOMAIN heap : heap[b].frees <= 1
  /\ pc = "exit" => \A b \in DOMAIN heap : heap[b].frees = 1
  /\ (pc # "exit" /\ data # NULL)
       => /\ Live(heap, data)
          /\ \A b \in DOMAIN heap \ {data} : heap[b].frees = 1

C6_Witness == pc = "exit" /\ diag = "enlarge" /\ Len(heap) = 2

\* C7: a run exits with success iff the report was printed; a usage error, an
\* unopenable file or a failed allocation exits with failure at once, with
\* nothing more ingested, no sort, no statistic and no report.
C7_ExitStatus ==
  /\ [](/\ pc = "exit" <=> status # "running"
        /\ pc = "exit" => (status = "EXIT_SUCCESS" <=> report.printed)
        /\ status = "EXIT_FAILURE" <=> diag # "none"
        /\ status = "EXIT_FAILURE"
             => /\ sortCount = 0 /\ ~report.printed
                /\ \A k \in DOMAIN AllStats : AllStats[k] = UNSET)
  /\ [][/\ status = "running"
        /\ (pc = "start" /\ argc # 2) => status' = "EXIT_FAILURE"
        /\ status' = "EXIT_FAILURE"
             => size' = size /\ pos' = pos /\ capacity' = capacity]_vars

C7_Witness ==
  /\ status = "EXIT_FAILURE" /\ diag = "enlarge"
  /\ size = INITIAL_CAPACITY /\ pos = INITIAL_CAPACITY + 1

\* C8: the sort runs once, after the last append and before any statistic;
\* nothing is appended or grown after it; the report comes after all five
\* statistics.
C8_PhaseOrder ==
  /\ [](/\ sortCount <= 1
        /\ sortCount = 1 => pos = Len(file) /\ size = Len(file) /\ ~fileOpen
        /\ (\E k \in DOMAIN AllStats : AllStats[k] # UNSET) => sortCount = 1
        /\ report.printed => \A k \in DOMAIN AllStats : AllStats[k] # UNSET)
  /\ [][/\ sortCount >= 1
             => size' = size /\ capacity' = capacity /\ data' = data /\ pos' = pos
        /\ sortCount' # sortCount => pc = "sort" /\ sortCount' = sortCount + 1
        /\ report.printed => report' = report /\ AllStats' = AllStats]_vars

C8_Witness ==
  /\ pc = "free" /\ report.printed /\ sortCount = 1
  /\ size = INITIAL_CAPACITY + 1

\* C9: for a value >= 0 babylonian_sqrt returns 0 for 0 and otherwise an x
\* whose two estimates x and value / x differ by at most 1e-6.
C9_SqrtWithinTolerance ==
  (stddev # UNSET /\ stddev # NaN) =>
    IF sq_value[1] = 0 THEN stddev[1] = 0
    ELSE Abs(stddev[1] - FixDiv(sq_value[1], stddev[1])) <= Epsilon

\* C10: for an input of N >= 1 values every cell touched lies inside a live
\* block, and every cell read is an initialised one among 0 .. N - 1.
C10_MemorySafe ==
  Len(file) >= 1 =>
    \A e \in acc :
      /\ e.live
      /\ e.blk \in DOMAIN heap
      /\ 0 <= e.idx /\ e.idx < heap[e.blk].size
      /\ e.op = "read" => e.idx < size /\ e.idx \in heap[e.blk].inited

C10_Witness == pc = "store" /\ acc # {} /\ size = 2 * INITIAL_CAPACITY
====
